---- MODULE Spec2Model ----
(***************************************************************************)
(* Model of scripts/fetch_data.py: main() calls the World Bank, IMF,       *)
(* trade-agreement and FRED functions one after another, builds the master *)
(* record and writes the JSON files.                                       *)
(*                                                                         *)
(* Every variable is a function over `runs`, the set of executions of      *)
(* main() under observation.  Spec observes one execution.  SpecTwin       *)
(* observes two executions that are fed the same HTTP responses and the    *)
(* same environment, the second one started after the clock range of the   *)
(* first.                                                                  *)
(*                                                                         *)
(* Python values: None is [t |-> "None"] (also the decoding of JSON null), *)
(* a dict is a function over its string keys (wrapped as [t |-> "dict"]    *)
(* when it is a decoded JSON value), a list is a sequence.  Numbers with a *)
(* fractional part (59.2, 0.673, observation values) are held as integers  *)
(* in thousandths; integers of the source (3247, 61) are held as they are. *)
(***************************************************************************)
EXTENDS Integers, Sequences, FiniteSets, TLC

VARIABLES runs, pc, i, fdi_gdp_data, data, api_key, wb_data, imf_data,
          trade_data, fred_data, metrics, master_data, files, log, rejected,
          resp, now

vars == <<runs, pc, i, fdi_gdp_data, data, api_key, wb_data, imf_data,
          trade_data, fred_data, metrics, master_data, files, log, rejected,
          resp, now>>

\* Number of clock ticks that may pass during one execution of main().
MaxClock == 1

-----------------------------------------------------------------------------
(* Python values *)

None == [t |-> "None"]

\* A local variable that has not been assigned yet.
Unbound == [t |-> "unbound"]

EmptyDict == <<>>

JNum(n) == [t |-> "num", n |-> n]

JStr(s) == [t |-> "str", s |-> s]

JDict(d) == [t |-> "dict", d |-> d]

JList(items) == [t |-> "list", items |-> items]

\* d[k] = v
DictSet(d, k, v) == [x \in (DOMAIN d) \cup {k} |-> IF x = k THEN v ELSE d[x]]

\* d.get(k)
DictGet(d, k) == IF k \in DOMAIN d THEN d[k] ELSE None

\* bool(v) for a decoded JSON value
Truthy(v) ==
  CASE v.t = "None" -> FALSE
    [] v.t = "num"  -> v.n # 0
    [] v.t = "str"  -> v.s # ""
    [] v.t = "dict" -> DOMAIN v.d # {}
    [] v.t = "list" -> v.items # <<>>

\* round(x, 2) on a number held in thousandths: the nearest hundredth, an
\* exact half going to the even hundredth.
Round2(n) ==
  LET q == n \div 10
      rem == n % 10
  IN  IF rem < 5 THEN q * 10
      ELSE IF rem > 5 THEN (q + 1) * 10
      ELSE IF q % 2 = 0 THEN q * 10 ELSE (q + 1) * 10

\* Result of evaluating a Python expression or block: a value or an exception.
Ok(v) == [k |-> "ok", v |-> v]

Raise(exc) == [k |-> "raise", exc |-> exc]

\* The classes `except Exception` catches (everything below Exception that the
\* fetchers' code can raise).
ExceptionClasses ==
  {"ConnectionError", "Timeout", "JSONDecodeError", "TypeError", "KeyError",
   "AttributeError"}

\* requests' own exception classes, below requests.RequestException.
RequestExceptionClasses == {"ConnectionError", "Timeout", "JSONDecodeError"}

CatchesRequestException(exc) == exc \in RequestExceptionClasses

\* except Exception as e:
CatchesException(exc) == exc \in ExceptionClasses

\* len(v)
PyLen(v) ==
  CASE v.t = "list" -> Ok(Len(v.items))
    [] v.t = "dict" -> Ok(Cardinality(DOMAIN v.d))
    [] v.t = "str"  -> Ok(Len(v.s))
    [] OTHER        -> Raise("TypeError")

\* v[1] for a v with len(v) > 1; the keys of a decoded JSON object are
\* strings, so 1 is never a key.
PyIndex1(v) ==
  CASE v.t = "list" -> Ok(v.items[2])
    [] v.t = "dict" -> Raise("KeyError")
    [] OTHER        -> Raise("TypeError")

RECURSIVE SetToSeq(_)
SetToSeq(S) ==
  IF S = {} THEN <<>>
  ELSE LET x == CHOOSE y \in S : TRUE IN <<x>> \o SetToSeq(S \ {x})

\* for item in v: the sequence of items, or TypeError when v is not iterable.
PyIter(v) ==
  CASE v.t = "list" -> Ok(v.items)
    [] v.t = "dict" -> Ok([n \in 1..Cardinality(DOMAIN v.d) |-> JStr(SetToSeq(DOMAIN v.d)[n])])
    [] OTHER        -> Raise("TypeError")

-----------------------------------------------------------------------------
(* HTTP responses *)

NotJson == [t |-> "notjson"]

\* requests.get raised (connection refused, DNS failure, timeout).
Failed(exc) == [kind |-> "raise", exc |-> exc]

Http(ok, body) == [kind |-> "http", ok |-> ok, body |-> body]

\* response.json()
ResponseJson(r) == IF r.body = NotJson THEN Raise("JSONDecodeError") ELSE Ok(r.body)

\* What the log keeps of the outcome of a request: requests.get raised, or it
\* returned a response.
Class(r) == IF r.kind = "raise" THEN "raise" ELSE "response"

\* The response carries a non-success HTTP status (response.ok is false).
Rejected(r) == r.kind = "http" /\ ~r.ok

Obs(date, value) == JDict([date |-> JStr(date), value |-> value])

\* One World Bank observation list with a missing value, a null, a zero, a
\* negative and a positive value.
MixedObs ==
  << JDict([date |-> JStr("2019")]),
     Obs("2020", None),
     Obs("2021", JNum(0)),
     Obs("2022", JNum(-1234)),
     Obs("2023", JNum(2346)) >>

ObsLists == { MixedObs }

Envelope == JDict([page |-> JNum(1), total |-> JNum(5)])

WBBodies ==
  { NotJson, None, JNum(7),
    JDict([message |-> JStr("error"), code |-> JNum(120)]),
    JList(<<>>), JList(<<Envelope>>), JList(<<Envelope, None>>),
    JList(<<Envelope, JList(<<JNum(1)>>)>>) }
  \cup { JList(<<Envelope, JList(o)>>) : o \in ObsLists }

WBResponses ==
  { Failed("ConnectionError"), Http(FALSE, NotJson) }
  \cup { Http(TRUE, b) : b \in WBBodies }

-----------------------------------------------------------------------------
(* fetch_world_bank_data *)

indicators == <<"trade_gdp_ratio", "fdi_inflows", "fdi_gdp_ratio", "exports">>

countries == << [name |-> "USA", code |-> "US"],
                [name |-> "CHN", code |-> "CN"],
                [name |-> "EUU", code |-> "EU"] >>

FdiGdpInit ==
  [metadata |-> [source |-> "World Bank",
                 indicator |-> "BX.KLT.DINV.WD.GD.ZS",
                 description |-> "Foreign direct investment, net inflows (% of GDP)"],
   data |-> EmptyDict]

\* The loop of lines 51-54 over the observation items.
RECURSIVE FdiValues(_, _)
FdiValues(items, values) ==
  IF items = <<>> THEN Ok(values)
  ELSE LET item == Head(items) IN
    IF item.t # "dict" THEN Raise("AttributeError")
    ELSE IF ~Truthy(DictGet(item.d, "value")) THEN FdiValues(Tail(items), values)
    ELSE IF item.d["value"].t # "num" THEN Raise("TypeError")
    ELSE IF "date" \notin DOMAIN item.d THEN Raise("KeyError")
    ELSE FdiValues(Tail(items),
                   DictSet(values, item.d["date"].s, Round2(item.d["value"].n)))

\* The comprehension of line 72.
RECURSIVE IndicatorItems(_)
IndicatorItems(items) ==
  IF items = <<>> THEN Ok(<<>>)
  ELSE LET item == Head(items) IN
    IF item.t # "dict" THEN Raise("AttributeError")
    ELSE LET rest == IndicatorItems(Tail(items)) IN
      IF rest.k = "raise" THEN rest
      ELSE IF Truthy(DictGet(item.d, "value")) THEN Ok(<<item>> \o rest.v)
      ELSE rest

\* Second without the test of response.ok.
SecondIgnoresStatus(r) ==
  IF r.kind = "raise" THEN Raise(r.exc)
  ELSE LET result == ResponseJson(r) IN
    IF result.k = "raise" THEN result
    ELSE LET n == PyLen(result.v) IN
      IF n.k = "raise" THEN n
      ELSE IF ~(n.v > 1) THEN [k |-> "skip"]
      ELSE LET second == PyIndex1(result.v) IN
        IF second.k = "raise" THEN second ELSE PyIter(second.v)

\* Lines 47-50 and 68-71: the request, the status test, the decoding and the
\* length test.  "skip" leaves the loop body without storing anything.
Second(r) ==
  IF r.kind = "raise" THEN Raise(r.exc)
  ELSE IF ~r.ok THEN [k |-> "skip"]
  ELSE LET result == ResponseJson(r) IN
    IF result.k = "raise" THEN result
    ELSE LET n == PyLen(result.v) IN
      IF n.k = "raise" THEN n
      ELSE IF ~(n.v > 1) THEN [k |-> "skip"]
      ELSE LET second == PyIndex1(result.v) IN
        IF second.k = "raise" THEN second ELSE PyIter(second.v)

\* CountryStep with the request wrapped in a try of its own: a failed request
\* is skipped and the loop goes on.
CountryStepSkipsFailure(r) ==
  IF r.kind = "raise" THEN [k |-> "skip"]
  ELSE LET s == Second(r) IN
    IF s.k # "ok" THEN s ELSE FdiValues(s.v, EmptyDict)

\* One iteration of the loop of lines 45-59.
CountryStep(r) ==
  LET s == Second(r) IN
    IF s.k # "ok" THEN s ELSE FdiValues(s.v, EmptyDict)

\* One iteration of the loop of lines 66-72.
IndicatorStep(r) ==
  LET s == Second(r) IN
    IF s.k # "ok" THEN s ELSE IndicatorItems(s.v)

-----------------------------------------------------------------------------
(* State *)

Files == {"data/fdi_gdp_data.json", "data/fragmentation_data.json",
          "data/trade_blocs.json", "data/metrics.json", "index.html"}

NoFile == [t |-> "nofile"]

\* json.dump(content, f) on a freshly opened file: a file holds the dumped
\* value.
WriteFile(fs, name, content) == [fs EXCEPT ![name] = content]

\* The same value in every observed execution.
All(v) == [r \in runs |-> v]

At(p) == \A r \in runs : pc[r] = p

\* The clock range of execution r: the second execution starts after the
\* range of the first.
ClockStart(r) == (r - 1) * (MaxClock + 1)

ClockEnd(r) == ClockStart(r) + MaxClock

\* datetime.now(): one reading per execution, not before the previous one.
\* Two observed executions run at the same pace, so that the second reads
\* its clock MaxClock + 1 ticks after the first does.
Readings == { tt \in [runs -> 0..(2 * MaxClock + 1)] :
                \A r \in runs : /\ tt[r] >= now[r]
                                 /\ tt[r] <= ClockEnd(r)
                                 /\ tt[r] - ClockStart(r) = tt[1] - ClockStart(1) }

\* datetime.isoformat()
IsoFormat(tt) == [isoformat |-> tt]

InitFor(rs) ==
  /\ runs = rs
  /\ pc = All("start")
  /\ i = All(0)
  /\ fdi_gdp_data = All(Unbound)
  /\ data = All(Unbound)
  /\ api_key = All(Unbound)
  /\ wb_data = All(Unbound)
  /\ imf_data = All(Unbound)
  /\ trade_data = All(Unbound)
  /\ fred_data = All(Unbound)
  /\ metrics = All(Unbound)
  /\ master_data = All(Unbound)
  /\ files = All([f \in Files |-> NoFile])
  /\ log = All(<<>>)
  /\ rejected = All({})
  /\ resp = All(Unbound)
  /\ now = [r \in runs |-> ClockStart(r)]

Init == InitFor({1})

InitTwin == InitFor({1, 2})

Entry(fetcher, target, r) == [fetcher |-> fetcher, target |-> target, class |-> Class(r)]

\* What the except clause of a fetcher does with an exception raised in its
\* try block: "return" (print, return None) or "propagate".
Handler(exc) == IF CatchesException(exc) THEN "return" ELSE "propagate"

-----------------------------------------------------------------------------
(* fetch_world_bank_data, lines 16-77 *)

\* main() calls fetch_world_bank_data; lines 19-43 set up its locals.
WBEnter ==
  /\ At("start")
  /\ pc' = All("wb_country")
  /\ i' = All(1)
  /\ data' = All(EmptyDict)
  /\ fdi_gdp_data' = All(FdiGdpInit)
  /\ UNCHANGED <<runs, api_key, wb_data, imf_data, trade_data, fred_data,
                 metrics, master_data, files, log, rejected, now>>
  /\ resp' = All(Unbound)

\* The fetcher leaves through its except clause (or the exception leaves it).
WBExcept(exc) ==
  /\ pc' = All(IF Handler(exc) = "return" THEN "imf" ELSE "crashed")
  /\ wb_data' = [r \in runs |-> IF Handler(exc) = "return" THEN None ELSE wb_data[r]]
  /\ i' = All(0)
  /\ data' = All(Unbound)
  /\ fdi_gdp_data' = All(Unbound)

\* One request of the loop over countries, lines 45-59.
WBCountry ==
  /\ At("wb_country")
  /\ \E rsp \in WBResponses :
       LET out == CountryStep(rsp) IN
       /\ resp' = All(rsp)
       /\ rejected' = [r \in runs |-> IF Rejected(rsp) THEN rejected[r] \cup {"wb"} ELSE rejected[r]]
       /\ log' = [r \in runs |-> Append(log[r], Entry("wb", countries[i[r]].code, rsp))]
       /\ IF out.k = "raise"
          THEN WBExcept(out.exc)
          ELSE /\ fdi_gdp_data' =
                    [r \in runs |->
                       IF out.k = "ok"
                       THEN [fdi_gdp_data[r] EXCEPT !.data =
                               DictSet(@, countries[i[r]].name,
                                       [country_code |-> countries[i[r]].name,
                                        country_name |-> countries[i[r]].code,
                                        values |-> out.v])]
                       ELSE fdi_gdp_data[r]]
               /\ i' = [r \in runs |-> IF i[r] < Len(countries) THEN i[r] + 1 ELSE 0]
               /\ pc' = [r \in runs |-> IF i[r] < Len(countries) THEN "wb_country" ELSE "wb_save"]
               /\ UNCHANGED <<data, wb_data>>
  /\ UNCHANGED <<runs, api_key, imf_data, trade_data, fred_data, metrics,
                 master_data, files, now>>

\* Lines 62-63: json.dump of fdi_gdp_data.
WBSave ==
  /\ At("wb_save")
  /\ files' = [r \in runs |-> WriteFile(files[r], "data/fdi_gdp_data.json", fdi_gdp_data[r])]
  /\ pc' = All("wb_indicator")
  /\ i' = All(1)
  /\ UNCHANGED <<runs, fdi_gdp_data, data, api_key, wb_data, imf_data,
                 trade_data, fred_data, metrics, master_data, log, rejected, now>>
  /\ resp' = All(Unbound)

\* One request of the loop over indicators, lines 66-72; after the last one,
\* line 74 returns data.
WBIndicator ==
  /\ At("wb_indicator")
  /\ \E rsp \in WBResponses :
       LET out == IndicatorStep(rsp)
           next(r) == IF out.k = "ok" THEN DictSet(data[r], indicators[i[r]], out.v)
                      ELSE data[r]
       IN
       /\ resp' = All(rsp)
       /\ rejected' = [r \in runs |-> IF Rejected(rsp) THEN rejected[r] \cup {"wb"} ELSE rejected[r]]
       /\ log' = [r \in runs |-> Append(log[r], Entry("wb", indicators[i[r]], rsp))]
       /\ IF out.k = "raise"
          THEN WBExcept(out.exc)
          ELSE /\ i' = [r \in runs |-> IF i[r] < Len(indicators) THEN i[r] + 1 ELSE 0]
               /\ pc' = [r \in runs |-> IF i[r] < Len(indicators) THEN "wb_indicator" ELSE "imf"]
               /\ data' = [r \in runs |-> IF i[r] < Len(indicators) THEN next(r) ELSE Unbound]
               /\ wb_data' = [r \in runs |-> IF i[r] < Len(indicators) THEN wb_data[r] ELSE next(r)]
               /\ fdi_gdp_data' = [r \in runs |-> IF i[r] < Len(indicators) THEN fdi_gdp_data[r] ELSE Unbound]
  /\ UNCHANGED <<runs, api_key, imf_data, trade_data, fred_data, metrics,
                 master_data, files, now>>

-----------------------------------------------------------------------------
(* fetch_imf_data, lines 79-106 *)

IMFBodies ==
  { NotJson, None, JNum(7), JList(<<>>),
    JDict([values |-> JDict(EmptyDict)]), JDict(EmptyDict) }

IMFResponses ==
  { Failed("Timeout"), Http(FALSE, NotJson) } \cup { Http(TRUE, b) : b \in IMFBodies }

\* The table of lines 89-96 and of lines 217-224, in thousandths.
FallbackShares ==
  [USD |-> 59200, EUR |-> 20100, CNY |-> 12300, JPY |-> 5200, GBP |-> 4900,
   Other |-> 8300]

\* 'values' in data
ValuesIn(v) ==
  CASE v.t = "dict" -> Ok("values" \in DOMAIN v.d)
    [] v.t = "list" -> Ok(\E n \in 1..Len(v.items) : v.items[n] = JStr("values"))
    [] OTHER        -> Raise("TypeError")

\* The try block of lines 83-103; a response that is not ok falls off the end
\* of the function, which returns None.
IMFStep(r) ==
  IF r.kind = "raise" THEN Raise(r.exc)
  ELSE IF ~r.ok THEN Ok(None)
  ELSE LET d == ResponseJson(r) IN
    IF d.k = "raise" THEN d
    ELSE LET has == ValuesIn(d.v) IN
      IF has.k = "raise" THEN has ELSE Ok(FallbackShares)

FetchIMF ==
  /\ At("imf")
  /\ \E rsp \in IMFResponses :
       LET out == IMFStep(rsp) IN
       /\ resp' = All(rsp)
       /\ rejected' = [r \in runs |-> IF Rejected(rsp) THEN rejected[r] \cup {"imf"} ELSE rejected[r]]
       /\ log' = [r \in runs |-> Append(log[r], Entry("imf", "COFER", rsp))]
       /\ IF out.k = "raise"
          THEN /\ pc' = All(IF Handler(out.exc) = "return" THEN "trade" ELSE "crashed")
               /\ imf_data' = [r \in runs |-> IF Handler(out.exc) = "return" THEN None
                                              ELSE imf_data[r]]
          ELSE /\ pc' = All("trade")
               /\ imf_data' = All(out.v)
  /\ UNCHANGED <<runs, i, fdi_gdp_data, data, api_key, wb_data, trade_data,
                 fred_data, metrics, master_data, files, now>>

-----------------------------------------------------------------------------
(* fetch_trade_agreements, lines 108-135 *)

agreements ==
  [USMCA |-> <<"USA", "CAN", "MEX">>,
   EU |-> <<"DEU", "FRA", "ITA", "ESP", "NLD", "POL", "BEL", "GRC", "PRT", "CZE">>,
   RCEP |-> <<"CHN", "JPN", "KOR", "AUS", "NZL">> \o <<"SGP", "MYS", "THA", "IDN", "PHL">>,
   ASEAN |-> <<"SGP", "MYS", "THA", "IDN", "PHL", "VNM", "MMR", "KHM", "LAO", "BRN">>,
   Mercosur |-> <<"BRA", "ARG", "URY", "PRY">>,
   AfCFTA |-> <<"NGA", "EGY", "ZAF", "ETH", "KEN", "GHA", "TZA", "UGA">>]

trade_shares ==
  [USMCA |-> 24, EU |-> 21, RCEP |-> 28, ASEAN |-> 12, Mercosur |-> 5,
   AfCFTA |-> 3, Other |-> 7]

TradeAgreements(tt) ==
  [agreements |-> agreements, trade_shares |-> trade_shares, updated |-> IsoFormat(tt)]

FetchTradeAgreements ==
  /\ At("trade")
  /\ \E tt \in Readings :
       /\ now' = tt
       /\ trade_data' = [r \in runs |-> TradeAgreements(tt[r])]
  /\ pc' = All("fred_key")
  /\ UNCHANGED <<runs, i, fdi_gdp_data, data, api_key, wb_data, imf_data,
                 fred_data, metrics, master_data, files, log, rejected>>
  /\ resp' = All(Unbound)

-----------------------------------------------------------------------------
(* fetch_fred_data, lines 164-194 *)

series == <<"GEPUCURRENT", "USEPUINDXD">>

\* os.environ.get('FRED_API_KEY'): unset, set to the empty string, or set.
EnvValues == { None, JStr(""), JStr("0123456789abcdef") }

FREDBodies ==
  { NotJson, None, JDict([observations |-> JList(<<>>)]) }

FREDResponses ==
  { Failed("ConnectionError"), Http(FALSE, NotJson) }
  \cup { Http(TRUE, b) : b \in FREDBodies }

\* The test written as `if api_key is None`.
KeyIsNone(key) == key = None

\* Lines 167-170.
KeyMissing(key) == ~Truthy(key)

FREDKey ==
  /\ At("fred_key")
  /\ \E key \in EnvValues :
       /\ api_key' = All(key)
       /\ fred_data' = [r \in runs |-> IF KeyMissing(key) THEN None ELSE fred_data[r]]
       /\ pc' = All(IF KeyMissing(key) THEN "metrics" ELSE "fred_series")
       /\ i' = All(IF KeyMissing(key) THEN 0 ELSE 1)
       /\ data' = All(IF KeyMissing(key) THEN Unbound ELSE EmptyDict)
  /\ UNCHANGED <<runs, fdi_gdp_data, wb_data, imf_data, trade_data, metrics,
                 master_data, files, log, rejected, now>>
  /\ resp' = All(Unbound)

\* Lines 187-189 for one series.
SeriesStep(r) ==
  IF r.kind = "raise" THEN Raise(r.exc)
  ELSE IF ~r.ok THEN [k |-> "skip"]
  ELSE ResponseJson(r)

\* One request of the loop of lines 180-189; after the last one, line 191
\* returns data.
FREDSeries ==
  /\ At("fred_series")
  /\ \E rsp \in FREDResponses :
       LET out == SeriesStep(rsp)
           next(r) == IF out.k = "ok" THEN DictSet(data[r], series[i[r]], out.v)
                      ELSE data[r]
       IN
       /\ resp' = All(rsp)
       /\ rejected' = [r \in runs |-> IF Rejected(rsp) THEN rejected[r] \cup {"fred"} ELSE rejected[r]]
       /\ log' = [r \in runs |-> Append(log[r], Entry("fred", series[i[r]], rsp))]
       /\ IF out.k = "raise"
          THEN /\ pc' = All(IF Handler(out.exc) = "return" THEN "metrics" ELSE "crashed")
               /\ fred_data' = [r \in runs |-> IF Handler(out.exc) = "return" THEN None
                                               ELSE fred_data[r]]
               /\ i' = All(0)
               /\ data' = All(Unbound)
          ELSE /\ i' = [r \in runs |-> IF i[r] < Len(series) THEN i[r] + 1 ELSE 0]
               /\ pc' = [r \in runs |-> IF i[r] < Len(series) THEN "fred_series" ELSE "metrics"]
               /\ data' = [r \in runs |-> IF i[r] < Len(series) THEN next(r) ELSE Unbound]
               /\ fred_data' = [r \in runs |-> IF i[r] < Len(series) THEN fred_data[r] ELSE next(r)]
  /\ UNCHANGED <<runs, fdi_gdp_data, api_key, wb_data, imf_data, trade_data,
                 metrics, master_data, files, now>>

-----------------------------------------------------------------------------
(* calculate_fragmentation_metrics, lines 137-162 *)

\* The metrics with the sanctions total taken from the fetched data, 0 when
\* there is none.
FragmentationMetricsFromData(wb, trade, tt) ==
  [timestamp |-> IsoFormat(tt),
   fragmentation_index |-> 673,
   regional_trade_percentage |-> 61,
   supply_chain_regionalization |->
     [years |-> <<2019, 2020, 2021, 2022, 2023, 2024>>,
      regional |-> <<45, 48, 52, 55, 58, 61>>,
      global |-> <<55, 52, 48, 45, 42, 39>>],
   tech_decoupling_scores |->
     [semiconductors |-> 72, telecom |-> 68, ai |-> 61, quantum |-> 83, biotech |-> 45],
   sanctions_count |->
     [total |-> IF wb = None THEN 0 ELSE 3247,
      by_year |-> <<1250, 1680, 2340, 2890, 3247>>,
      years |-> <<2020, 2021, 2022, 2023, 2024>>]]

FragmentationMetrics(wb, trade, tt) ==
  [timestamp |-> IsoFormat(tt),
   fragmentation_index |-> 673,
   regional_trade_percentage |-> 61,
   supply_chain_regionalization |->
     [years |-> <<2019, 2020, 2021, 2022, 2023, 2024>>,
      regional |-> <<45, 48, 52, 55, 58, 61>>,
      global |-> <<55, 52, 48, 45, 42, 39>>],
   tech_decoupling_scores |->
     [semiconductors |-> 72, telecom |-> 68, ai |-> 61, quantum |-> 83, biotech |-> 45],
   sanctions_count |->
     [total |-> 3247,
      by_year |-> <<1250, 1680, 2340, 2890, 3247>>,
      years |-> <<2020, 2021, 2022, 2023, 2024>>]]

CalculateMetrics ==
  /\ At("metrics")
  /\ \E tt \in Readings :
       /\ now' = tt
       /\ metrics' = [r \in runs |-> FragmentationMetrics(wb_data[r], trade_data[r], tt[r])]
  /\ pc' = All("master")
  /\ UNCHANGED <<runs, i, fdi_gdp_data, data, api_key, wb_data, imf_data,
                 trade_data, fred_data, master_data, files, log, rejected>>
  /\ resp' = All(Unbound)

-----------------------------------------------------------------------------
(* main, lines 196-244 *)

\* bool(v) of a fetcher's result: None and the empty dict are false.
Falsy(v) == v = None \/ v = EmptyDict

\* The field without its `or {...}` part.
CurrencySharesNoFallback(imf) == imf

\* imf_data or {...}, lines 217-224
CurrencyShares(imf) == IF Falsy(imf) THEN FallbackShares ELSE imf

\* wb_data if wb_data else {}, line 226
WorldBankIndicators(wb) == IF Falsy(wb) THEN EmptyDict ELSE wb

\* fred_data if fred_data else {}, line 227
EconomicUncertainty(fred) == IF Falsy(fred) THEN EmptyDict ELSE fred

\* The record with the World Bank part kept only when the IMF fetch succeeded.
MasterDataAllOrNothing(wb, imf, trade, fred, m, tt) ==
  [metadata |-> [last_updated |-> IsoFormat(tt),
                 sources |-> <<"World Bank", "IMF", "FRED", "Calculated">>,
                 status |-> "success"],
   trade_blocs |-> trade,
   currency_shares |-> CurrencyShares(imf),
   fragmentation_metrics |-> m,
   world_bank_indicators |-> IF Falsy(imf) THEN EmptyDict ELSE WorldBankIndicators(wb),
   economic_uncertainty |-> EconomicUncertainty(fred)]

\* The record with the time of the run written into the status as well.
MasterDataStampedStatus(wb, imf, trade, fred, m, tt) ==
  [metadata |-> [last_updated |-> IsoFormat(tt),
                 sources |-> <<"World Bank", "IMF", "FRED", "Calculated">>,
                 status |-> <<"success", IsoFormat(tt)>>],
   trade_blocs |-> trade,
   currency_shares |-> CurrencyShares(imf),
   fragmentation_metrics |-> m,
   world_bank_indicators |-> WorldBankIndicators(wb),
   economic_uncertainty |-> EconomicUncertainty(fred)]

MasterData(wb, imf, trade, fred, m, tt) ==
  [metadata |-> [last_updated |-> IsoFormat(tt),
                 sources |-> <<"World Bank", "IMF", "FRED", "Calculated">>,
                 status |-> "success"],
   trade_blocs |-> trade,
   currency_shares |-> CurrencyShares(imf),
   fragmentation_metrics |-> m,
   world_bank_indicators |-> WorldBankIndicators(wb),
   economic_uncertainty |-> EconomicUncertainty(fred)]

\* Lines 210-228.
BuildMaster ==
  /\ At("master")
  /\ \E tt \in Readings :
       /\ now' = tt
       /\ master_data' = [r \in runs |->
            MasterData(wb_data[r], imf_data[r], trade_data[r], fred_data[r],
                       metrics[r], tt[r])]
  /\ pc' = All("save")
  /\ UNCHANGED <<runs, i, fdi_gdp_data, data, api_key, wb_data, imf_data,
                 trade_data, fred_data, metrics, files, log, rejected>>
  /\ resp' = All(Unbound)

\* Lines 246-262; the page is a constant text.
CreateIndexFile(fs) == WriteFile(fs, "index.html", [text |-> "<!DOCTYPE html>"])

\* Lines 230-244: the three dumps, then create_index_file().
SaveFiles ==
  /\ At("save")
  /\ files' = [r \in runs |->
       CreateIndexFile(
         WriteFile(
           WriteFile(
             WriteFile(files[r], "data/fragmentation_data.json", master_data[r]),
             "data/trade_blocs.json", trade_data[r]),
           "data/metrics.json", metrics[r]))]
  /\ pc' = All("done")
  /\ UNCHANGED <<runs, i, fdi_gdp_data, data, api_key, wb_data, imf_data,
                 trade_data, fred_data, metrics, master_data, log, rejected, now>>
  /\ resp' = All(Unbound)

Next ==
  \/ WBEnter
  \/ WBCountry
  \/ WBSave
  \/ WBIndicator
  \/ FetchIMF
  \/ FetchTradeAgreements
  \/ FREDKey
  \/ FREDSeries
  \/ CalculateMetrics
  \/ BuildMaster
  \/ SaveFiles

Spec == Init /\ [][Next]_vars

SpecTwin == InitTwin /\ [][Next]_vars

-----------------------------------------------------------------------------
(* Properties *)

Fetchers == {"wb", "imf", "fred"}

\* The value fetcher f returned to main() in execution r (Unbound before).
Result(r, f) ==
  CASE f = "wb"   -> wb_data[r]
    [] f = "imf"  -> imf_data[r]
    [] f = "fred" -> fred_data[r]

\* The requests fetcher f has issued in execution r, in order.
Requests(r, f) == SelectSeq(log[r], LAMBDA e : e.fetcher = f)

Targets(r, f) == [n \in 1..Len(Requests(r, f)) |-> Requests(r, f)[n].target]

RaisedIn(r, f) == \E n \in 1..Len(log[r]) : log[r][n].fetcher = f /\ log[r][n].class = "raise"

Written(r, name) == files[r][name] # NoFile

SixEntryTable ==
  [USD |-> 59200, EUR |-> 20100, CNY |-> 12300, JPY |-> 5200, GBP |-> 4900,
   Other |-> 8300]

IsPrefix(s, t) == Len(s) <= Len(t) /\ \A n \in 1..Len(s) : s[n] = t[n]

\* C1: when a request of a fetcher raises a transport failure, the fetcher
\* returns None and the finished run has written the primary file, the
\* trade-blocs file, the metrics file and the FDI/GDP file.
C1_TransportFailureKeepsAllFiles ==
  \A r \in runs : pc[r] = "done" =>
    \A f \in Fetchers : RaisedIn(r, f) =>
      /\ Result(r, f) = None
      /\ Written(r, "data/fragmentation_data.json")
      /\ Written(r, "data/trade_blocs.json")
      /\ Written(r, "data/metrics.json")
      /\ Written(r, "data/fdi_gdp_data.json")

\* C2: no exception leaves a fetcher: main() is never ended by one, it can
\* always take its next step until it is done, and once it is at the
\* aggregation every fetcher has returned a value.
C2_NoExceptionEscapes ==
  \A r \in runs :
    /\ pc[r] # "crashed"
    /\ pc[r] # "done" => ENABLED Next
    /\ pc[r] \in {"metrics", "master", "save", "done"}
         => \A f \in Fetchers : Result(r, f) # Unbound

\* All three fetchers came back absent because of what the responses held
\* (no transport failure, no rejected request), and main() went on.
C2_Witness ==
  \E r \in runs :
    /\ pc[r] = "done"
    /\ \A f \in Fetchers : Result(r, f) = None /\ ~RaisedIn(r, f)
    /\ rejected[r] = {}
    /\ Len(Requests(r, "fred")) > 0

\* C3: whatever the three fetchers return, the finished run has written the
\* primary, trade-blocs and metrics files; a fetcher's result is assigned
\* only by that fetcher's own steps, and the master record's part for a
\* fetcher is computed from that fetcher's result alone.
C3_PartialSuccess ==
  /\ [](\A r \in runs : pc[r] = "done" =>
          /\ Written(r, "data/fragmentation_data.json")
          /\ Written(r, "data/trade_blocs.json")
          /\ Written(r, "data/metrics.json"))
  /\ [][\A r \in runs :
          /\ wb_data'[r] # wb_data[r] => pc[r] \in {"wb_country", "wb_indicator"}
          /\ imf_data'[r] # imf_data[r] => pc[r] = "imf"
          /\ fred_data'[r] # fred_data[r] => pc[r] \in {"fred_key", "fred_series"}
          /\ master_data'[r] # master_data[r] =>
               /\ master_data'[r].world_bank_indicators
                    = (IF wb_data[r] \in {None, EmptyDict} THEN EmptyDict ELSE wb_data[r])
               /\ master_data'[r].currency_shares
                    = (IF imf_data[r] = None THEN SixEntryTable ELSE imf_data[r])
               /\ master_data'[r].economic_uncertainty
                    = (IF fred_data[r] \in {None, EmptyDict} THEN EmptyDict ELSE fred_data[r])]_vars

\* World Bank succeeded while IMF and FRED failed, and the files are there.
C3_Witness ==
  \E r \in runs :
    /\ pc[r] = "done"
    /\ wb_data[r] \notin {None, EmptyDict}
    /\ imf_data[r] = None /\ RaisedIn(r, "imf")
    /\ fred_data[r] = None /\ RaisedIn(r, "fred")
    /\ master_data[r].world_bank_indicators = wb_data[r]
    /\ Written(r, "data/fragmentation_data.json")

AfterFred == {"metrics", "master", "save", "done"}

KeyUnsetOrEmpty(r) == api_key[r] \in {None, JStr("")}

\* C4 as stated: without a key fetch_fred_data returns None and issues no
\* request; with a key it issues exactly one request per series unless a
\* request raises.
C4_OneRequestPerSeriesUnlessRaise ==
  \A r \in runs : pc[r] \in AfterFred =>
    IF KeyUnsetOrEmpty(r)
    THEN fred_data[r] = None /\ Requests(r, "fred") = <<>>
    ELSE ~RaisedIn(r, "fred") => Targets(r, "fred") = series

\* C4 amended: without a key fetch_fred_data returns None and issues no
\* request; with a key it issues the series' requests in order, at most one
\* each and at least the first, and all of them unless it returned None; when
\* it has just returned None with a key, its last request raised or brought a
\* successful response whose body is not JSON.
C4_OneRequestPerSeriesUnlessRaiseOrBadBody ==
  \A r \in runs : pc[r] \in AfterFred =>
    IF KeyUnsetOrEmpty(r)
    THEN fred_data[r] = None /\ Requests(r, "fred") = <<>>
    ELSE /\ IsPrefix(Targets(r, "fred"), series)
         /\ Len(Targets(r, "fred")) >= 1
         /\ fred_data[r] # None => Targets(r, "fred") = series
         /\ (fred_data[r] = None /\ pc[r] = "metrics") =>
              \/ RaisedIn(r, "fred")
              \/ resp[r].kind = "http" /\ resp[r].ok /\ resp[r].body = NotJson

\* The key is the empty string: no request.
C4_Witness ==
  \E r \in runs :
    /\ pc[r] = "metrics"
    /\ api_key[r] = JStr("")
    /\ fred_data[r] = None
    /\ Requests(r, "fred") = <<>>

\* C5: when the three fetchers all came back absent, the primary file holds
\* status "success", the six-entry fallback table, empty world_bank_indicators
\* and economic_uncertainty, and the sanctions total 3247.
C5_AllAbsentRecord ==
  \A r \in runs :
    (/\ pc[r] = "done"
     /\ wb_data[r] \in {None, EmptyDict}
     /\ imf_data[r] = None
     /\ fred_data[r] \in {None, EmptyDict}) =>
      LET m == files[r]["data/fragmentation_data.json"] IN
        /\ m # NoFile
        /\ m.metadata.status = "success"
        /\ m.currency_shares = SixEntryTable
        /\ Cardinality(DOMAIN m.currency_shares) = 6
        /\ m.world_bank_indicators = <<>>
        /\ m.economic_uncertainty = <<>>
        /\ m.fragmentation_metrics.sanctions_count.total = 3247

C5_Witness ==
  \E r \in runs :
    /\ pc[r] = "done"
    /\ wb_data[r] = None /\ imf_data[r] = None /\ fred_data[r] = None
    /\ files[r]["data/fragmentation_data.json"] = master_data[r]

BothDone == runs = {1, 2} /\ pc[1] = "done" /\ pc[2] = "done"

\* C6 as stated: two runs fed the same responses at different clock times
\* write master records that differ in metadata.last_updated only.
C6_OnlyLastUpdatedDiffers ==
  BothDone =>
    LET m1 == files[1]["data/fragmentation_data.json"]
        m2 == files[2]["data/fragmentation_data.json"]
    IN  [m1 EXCEPT !.metadata.last_updated = None]
          = [m2 EXCEPT !.metadata.last_updated = None]

\* C6 amended: two runs fed the same responses at different clock times write
\* master records that differ only in the three timestamps
\* metadata.last_updated, trade_blocs.updated and
\* fragmentation_metrics.timestamp.
C6_OnlyTimestampsDiffer ==
  BothDone =>
    LET m1 == files[1]["data/fragmentation_data.json"]
        m2 == files[2]["data/fragmentation_data.json"]
        Blank(m) == [m EXCEPT !.metadata.last_updated = None,
                              !.trade_blocs.updated = None,
                              !.fragmentation_metrics.timestamp = None]
    IN  Blank(m1) = Blank(m2)

\* Both runs are done, with fetched data in the record and every timestamp of
\* the second run different from the first run's.
C6_Witness ==
  /\ BothDone
  /\ master_data[1].world_bank_indicators # <<>>
  /\ master_data[1].economic_uncertainty # <<>>
  /\ master_data[1].metadata.last_updated # master_data[2].metadata.last_updated
  /\ master_data[1].trade_blocs.updated # master_data[2].trade_blocs.updated
  /\ master_data[1].fragmentation_metrics.timestamp
       # master_data[2].fragmentation_metrics.timestamp

\* C7: in a master record, built or written, currency_shares is the IMF
\* result when the IMF fetcher returned one and the six-entry table when it
\* returned None, world_bank_indicators and economic_uncertainty are the
\* World Bank and FRED results when present and the empty mapping when None,
\* and none of the three is null.
C7_DefaultsSubstituted ==
  \A r \in runs :
    \A m \in {master_data[r], files[r]["data/fragmentation_data.json"]} \ {Unbound, NoFile} :
      /\ m.currency_shares = (IF imf_data[r] = None THEN SixEntryTable ELSE imf_data[r])
      /\ m.world_bank_indicators = (IF wb_data[r] = None THEN <<>> ELSE wb_data[r])
      /\ m.economic_uncertainty = (IF fred_data[r] = None THEN <<>> ELSE fred_data[r])
      /\ m.currency_shares # None
      /\ m.world_bank_indicators # None
      /\ m.economic_uncertainty # None

\* A written record with the IMF result absent and the other two present.
C7_Witness ==
  \E r \in runs :
    /\ files[r]["data/fragmentation_data.json"] # NoFile
    /\ imf_data[r] = None
    /\ wb_data[r] \notin {None, EmptyDict}
    /\ fred_data[r] \notin {None, EmptyDict}

\* C8 as stated: a fetcher one of whose requests got a non-success status
\* returns None or an empty result.
C8_StatusMeansAbsent ==
  \A r \in runs : \A f \in rejected[r] :
    Result(r, f) # Unbound => Result(r, f) \in {None, EmptyDict}

\* C8 amended: a request that gets a non-success status is skipped: nothing
\* is stored for it and no exception is raised; the IMF fetcher then returns
\* None, the World Bank and FRED fetchers go on with their next request or,
\* after their last one, return what the other requests stored.
C8_StatusSkipsRequest ==
  [][\A r \in runs :
       (Len(log'[r]) > Len(log[r]) /\ Rejected(resp'[r])) =>
         /\ pc'[r] # "crashed"
         /\ pc[r] = "wb_country" =>
              /\ fdi_gdp_data'[r] = fdi_gdp_data[r]
              /\ pc'[r] = (IF i[r] < 3 THEN "wb_country" ELSE "wb_save")
         /\ pc[r] = "wb_indicator" =>
              IF i[r] < 4 THEN data'[r] = data[r] /\ pc'[r] = "wb_indicator"
              ELSE wb_data'[r] = data[r] /\ pc'[r] = "imf"
         /\ pc[r] = "imf" => imf_data'[r] = None /\ pc'[r] = "trade"
         /\ pc[r] = "fred_series" =>
              IF i[r] < 2 THEN data'[r] = data[r] /\ pc'[r] = "fred_series"
              ELSE fred_data'[r] = data[r] /\ pc'[r] = "metrics"]_vars

\* The World Bank and FRED fetchers each had a request rejected and still
\* returned entries.
C8_Witness ==
  \E r \in runs :
    /\ rejected[r] = {"wb", "fred"}
    /\ wb_data[r] \notin {Unbound, None, EmptyDict}
    /\ fred_data[r] \notin {Unbound, None, EmptyDict}

HasValue(item) == "value" \in DOMAIN item.d /\ item.d["value"] # None

\* The observation list of the response just received, when it is one.
ObsOf(rsp) == rsp.body.items[2].items

IsObsResponse(rsp) ==
  /\ rsp # Unbound
  /\ rsp.kind = "http" /\ rsp.ok
  /\ rsp.body \in { JList(<<Envelope, JList(o)>>) : o \in ObsLists }

\* C9: after a World Bank request answered with a list of observations, the
\* values stored for the country are keyed by the years of exactly the
\* observations that have a value (not missing, not null), and the list
\* stored for the indicator is exactly those observations.
C9_DropsExactlyTheValueless ==
  \A r \in runs :
    (log[r] # <<>> /\ log[r][Len(log[r])].fetcher = "wb" /\ IsObsResponse(resp[r])) =>
      LET kept == SelectSeq(ObsOf(resp[r]), HasValue)
          target == log[r][Len(log[r])].target
      IN  /\ \A n \in 1..Len(countries) : target = countries[n].code =>
                DOMAIN fdi_gdp_data[r].data[countries[n].name].values
                  = { kept[k].d["date"].s : k \in 1..Len(kept) }
          /\ \A n \in 1..Len(indicators) : target = indicators[n] =>
                (IF pc[r] = "wb_indicator" THEN data[r] ELSE wb_data[r])[indicators[n]] = kept

NoRepeat(s) == \A m, n \in 1..Len(s) : m # n => s[m] # s[n]

\* C10: in one run no request is issued twice, each step issues at most one
\* request, a fetcher issues nothing after one of its requests raised, and
\* the fetchers after it are invoked all the same (the finished run has the
\* IMF request in its log and a result from every fetcher).
C10_NoRetrySequential ==
  /\ [](\A r \in runs :
          /\ NoRepeat([n \in 1..Len(log[r]) |-> <<log[r][n].fetcher, log[r][n].target>>])
          /\ Len(log[r]) <= Len(countries) + Len(indicators) + 1 + Len(series)
          /\ \A m, n \in 1..Len(log[r]) :
               (m < n /\ log[r][m].class = "raise") => log[r][n].fetcher # log[r][m].fetcher
          /\ pc[r] = "done" =>
               /\ Len(Requests(r, "imf")) = 1
               /\ \A f \in Fetchers : Result(r, f) # Unbound
               /\ trade_data[r] # Unbound)
  /\ [][\A r \in runs :
          \/ log'[r] = log[r]
          \/ /\ Len(log'[r]) = Len(log[r]) + 1
             /\ SubSeq(log'[r], 1, Len(log[r])) = log[r]]_vars

\* The first World Bank request raised; the IMF and FRED requests followed.
C10_Witness ==
  \E r \in runs :
    /\ pc[r] = "done"
    /\ Len(Requests(r, "wb")) = 1 /\ RaisedIn(r, "wb")
    /\ Len(Requests(r, "imf")) = 1
    /\ Len(Requests(r, "fred")) = 2

====
